---- MODULE Spec2Model ----
(***************************************************************************)
(* Plot panel export engine (panels/Plot/csv.ts): generateCSV,             *)
(* downloadCSV, generateSVG, downloadSVG.                                  *)
(*                                                                         *)
(* Text is a sequence of one-character strings.  A JavaScript number that  *)
(* results from the renderer's arithmetic is an IEEE-754 binary64 value:   *)
(* NaN, an infinity, or sign * m * 2^e with m a natural number held as a   *)
(* sequence of bits, least significant first, rounded to 53 bits.          *)
(***************************************************************************)
EXTENDS Integers, Sequences, FiniteSets, TLC

(***************************************************************************)
(* Bounds of the model.                                                    *)
(***************************************************************************)
MaxDatasets == 2
MaxPoints == 2
MaxCalls == 2
MaxN == 2600

(***************************************************************************)
(* Natural numbers of any size: sequences of limbs in base 2^15, least     *)
(* significant limb first, without high zero limbs (<<>> is 0).            *)
(***************************************************************************)
LimbBits == 15
Base == 2 ^ LimbBits

RECURSIVE NatOfInt(_)
NatOfInt(n) == IF n = 0 THEN <<>> ELSE <<n % Base>> \o NatOfInt(n \div Base)

RECURSIVE NatToInt(_)
NatToInt(a) == IF a = <<>> THEN 0 ELSE Head(a) + Base * NatToInt(Tail(a))

RECURSIVE NatStrip(_)
NatStrip(a) ==
  IF a = <<>> THEN <<>>
  ELSE IF a[Len(a)] = 0 THEN NatStrip(SubSeq(a, 1, Len(a) - 1)) ELSE a

RECURSIVE NatAddC(_, _, _)
NatAddC(a, b, c) ==
  IF a = <<>> /\ b = <<>> THEN (IF c = 0 THEN <<>> ELSE <<c>>)
  ELSE LET x == IF a = <<>> THEN 0 ELSE Head(a)
           y == IF b = <<>> THEN 0 ELSE Head(b)
           t == x + y + c
       IN <<t % Base>> \o NatAddC(IF a = <<>> THEN <<>> ELSE Tail(a),
                                  IF b = <<>> THEN <<>> ELSE Tail(b),
                                  t \div Base)

NatAdd(a, b) == NatAddC(a, b, 0)

\* a - b for a >= b
RECURSIVE NatSubB(_, _, _)
NatSubB(a, b, w) ==
  IF a = <<>> THEN <<>>
  ELSE LET y == IF b = <<>> THEN 0 ELSE Head(b)
           t == Head(a) - y - w
       IN <<t % Base>> \o NatSubB(Tail(a),
                                  IF b = <<>> THEN <<>> ELSE Tail(b),
                                  IF t < 0 THEN 1 ELSE 0)

NatSub(a, b) == NatStrip(NatSubB(a, b, 0))

RECURSIVE NatCmpFrom(_, _, _)
NatCmpFrom(a, b, i) ==
  IF i = 0 THEN 0
  ELSE IF a[i] # b[i] THEN (IF a[i] < b[i] THEN -1 ELSE 1)
  ELSE NatCmpFrom(a, b, i - 1)

\* -1, 0, 1 as a < b, a = b, a > b
NatCmp(a, b) ==
  IF Len(a) # Len(b) THEN (IF Len(a) < Len(b) THEN -1 ELSE 1)
  ELSE NatCmpFrom(a, b, Len(a))

\* a * k + c for a limb k
RECURSIVE NatMulLimb(_, _, _)
NatMulLimb(a, k, c) ==
  IF a = <<>> THEN (IF c = 0 THEN <<>> ELSE <<c>>)
  ELSE LET t == Head(a) * k + c
       IN <<t % Base>> \o NatMulLimb(Tail(a), k, t \div Base)

RECURSIVE NatMul(_, _)
NatMul(a, b) ==
  IF a = <<>> \/ b = <<>> THEN <<>>
  ELSE LET rest == NatMul(Tail(a), b)
           sh == IF rest = <<>> THEN <<>> ELSE <<0>> \o rest
       IN NatAdd(NatStrip(NatMulLimb(b, Head(a), 0)), sh)

RECURSIVE BitLenInt(_)
BitLenInt(n) == IF n = 0 THEN 0 ELSE 1 + BitLenInt(n \div 2)

\* number of significant bits
BitLen(a) == IF a = <<>> THEN 0 ELSE LimbBits * (Len(a) - 1) + BitLenInt(a[Len(a)])

\* bit i (from 0) of a
NatBit(a, i) ==
  LET l == (i \div LimbBits) + 1
  IN IF l > Len(a) THEN 0 ELSE (a[l] \div (2 ^ (i % LimbBits))) % 2

\* a * 2^n
NatShl(a, n) ==
  IF a = <<>> THEN <<>>
  ELSE [i \in 1..(n \div LimbBits) |-> 0] \o NatMulLimb(a, 2 ^ (n % LimbBits), 0)

\* a \div 2^n
NatShr(a, n) ==
  LET q == n \div LimbBits
      r == n % LimbBits
      h == IF q >= Len(a) THEN <<>> ELSE SubSeq(a, q + 1, Len(a))
  IN NatStrip([i \in 1..Len(h) |->
                 (h[i] \div (2 ^ r))
                 + (IF i < Len(h) THEN (h[i + 1] % (2 ^ r)) * (2 ^ (LimbBits - r)) ELSE 0)])

\* a % 2^n # 0
NatLowNonzero(a, n) ==
  LET q == n \div LimbBits
      r == n % LimbBits
  IN \/ \E i \in 1..(IF q < Len(a) THEN q ELSE Len(a)) : a[i] # 0
     \/ (q < Len(a) /\ a[q + 1] % (2 ^ r) # 0)

RECURSIVE LowZerosInt(_)
LowZerosInt(n) == IF n % 2 = 1 THEN 0 ELSE 1 + LowZerosInt(n \div 2)

\* number of low zero bits of a nonzero natural
RECURSIVE LowZeros(_)
LowZeros(a) ==
  IF Head(a) # 0 THEN LowZerosInt(Head(a)) ELSE LimbBits + LowZeros(Tail(a))

\* short division of a by a limb d, from the most significant limb i down,
\* with the running remainder r
RECURSIVE NatDivLimb(_, _, _, _)
NatDivLimb(a, d, i, r) ==
  IF i = 0 THEN [q |-> <<>>, r |-> r]
  ELSE LET t == r * Base + a[i]
           lo == NatDivLimb(a, d, i - 1, t % d)
       IN [q |-> Append(lo.q, t \div d), r |-> lo.r]

(***************************************************************************)
(* binary64 values: NaN, an infinity, or s * m * 2^e with m odd (or 0).    *)
(* Exponent overflow and subnormals are out of the model's range.          *)
(***************************************************************************)
Precision == 53

NaN == [k |-> "nan"]
Inf(s) == [k |-> "inf", s |-> s]
Zero(s) == [k |-> "fin", s |-> s, m |-> <<>>, e |-> 0]
Fin(s, m, e) ==
  IF m = <<>> THEN Zero(s)
  ELSE LET z == LowZeros(m)
       IN [k |-> "fin", s |-> s, m |-> NatShr(m, z), e |-> e + z]

FromInt(n) == IF n < 0 THEN Fin(-1, NatOfInt(-n), 0) ELSE Fin(1, NatOfInt(n), 0)

\* round the magnitude m * 2^e (plus a nonzero remainder below the last bit
\* when sticky) to Precision bits, ties to even
RoundNearestEven(s, m, e, sticky) ==
  IF BitLen(m) <= Precision THEN Fin(s, m, e)
  ELSE LET drop == BitLen(m) - Precision
           kept == NatShr(m, drop)
           half == NatBit(m, drop - 1) = 1
           rest == sticky \/ NatLowNonzero(m, drop - 1)
           up == half /\ (rest \/ NatBit(kept, 0) = 1)
       IN Fin(s, IF up THEN NatAdd(kept, <<1>>) ELSE kept, e + drop)

\* the quotient of naturals n / d to at least Precision + 2 bits, for a
\* divisor of one limb (the odd part of every divisor the model reaches is
\* below 2^15): f bits are below the binary point and r is the remainder left
NatQuotient(n, d) ==
  LET w == Precision + 2 + BitLen(d) - BitLen(n)
      f == IF w < 0 THEN 0 ELSE w
      sn == NatShl(n, f)
      sd == NatDivLimb(sn, d[Len(d)], Len(sn), 0)
  IN [q |-> NatStrip(sd.q), r |-> NatOfInt(sd.r), f |-> f]

\* a / b
FDiv(a, b) ==
  IF a.k = "nan" \/ b.k = "nan" THEN NaN
  ELSE IF a.k = "inf" THEN (IF b.k = "inf" THEN NaN ELSE Inf(a.s * b.s))
  ELSE IF b.k = "inf" THEN Zero(a.s * b.s)
  ELSE IF b.m = <<>> THEN (IF a.m = <<>> THEN NaN ELSE Inf(a.s * b.s))
  ELSE IF a.m = <<>> THEN Zero(a.s * b.s)
  ELSE LET r == NatQuotient(a.m, b.m)
       IN RoundNearestEven(a.s * b.s, r.q, a.e - b.e - r.f, r.r # <<>>)

\* a * b
FMul(a, b) ==
  IF a.k = "nan" \/ b.k = "nan" THEN NaN
  ELSE IF a.k = "inf" \/ b.k = "inf" THEN
    (IF (a.k = "fin" /\ a.m = <<>>) \/ (b.k = "fin" /\ b.m = <<>>) THEN NaN
     ELSE Inf(a.s * b.s))
  ELSE IF a.m = <<>> \/ b.m = <<>> THEN Zero(a.s * b.s)
  ELSE RoundNearestEven(a.s * b.s,
                        IF Len(a.m) <= Len(b.m) THEN NatMul(a.m, b.m) ELSE NatMul(b.m, a.m),
                        a.e + b.e, FALSE)

\* a common exponent for two finite values: the magnitudes as naturals
Align(a, b) ==
  LET e == IF a.e < b.e THEN a.e ELSE b.e
  IN [e |-> e, a |-> NatShl(a.m, a.e - e), b |-> NatShl(b.m, b.e - e)]

\* a + b
FAdd(a, b) ==
  IF a.k = "nan" \/ b.k = "nan" THEN NaN
  ELSE IF a.k = "inf" /\ b.k = "inf" THEN (IF a.s = b.s THEN a ELSE NaN)
  ELSE IF a.k = "inf" THEN a
  ELSE IF b.k = "inf" THEN b
  ELSE LET al == Align(a, b)
           c == NatCmp(al.a, al.b)
       IN IF a.s = b.s THEN RoundNearestEven(a.s, NatAdd(al.a, al.b), al.e, FALSE)
          ELSE IF c = 0 THEN Zero(1)
          ELSE IF c > 0 THEN RoundNearestEven(a.s, NatSub(al.a, al.b), al.e, FALSE)
          ELSE RoundNearestEven(b.s, NatSub(al.b, al.a), al.e, FALSE)

FNeg(a) == IF a.k = "nan" THEN a ELSE [a EXCEPT !.s = -a.s]

\* a - b
FSub(a, b) == FAdd(a, FNeg(b))

IsFinite(a) == a.k = "fin"

\* a <= b for finite values
FLeq(a, b) ==
  LET al == Align(a, b)
      c == NatCmp(al.a, al.b)
  IN IF a.s # b.s THEN (a.s < b.s \/ (a.m = <<>> /\ b.m = <<>>))
     ELSE IF a.s = 1 THEN c <= 0 ELSE c >= 0

(***************************************************************************)
(* Text: sequences of one-character strings.                               *)
(***************************************************************************)
Digits == <<"0", "1", "2", "3", "4", "5", "6", "7", "8", "9">>

RECURSIVE NatToStr(_)
NatToStr(n) ==
  IF n < 10 THEN <<Digits[n + 1]>> ELSE NatToStr(n \div 10) \o <<Digits[(n % 10) + 1]>>

\* String(n) for an integer-valued number
NumberToString(n) == IF n < 0 THEN <<"-">> \o NatToStr(-n) ELSE NatToStr(n)

\* String.prototype.padStart
PadStart(s, n, c) == [i \in 1..(IF Len(s) < n THEN n - Len(s) ELSE 0) |-> c] \o s

RECURSIVE Join(_, _)
Join(strs, sep) ==
  IF strs = <<>> THEN <<>>
  ELSE IF Len(strs) = 1 THEN strs[1]
  ELSE strs[1] \o sep \o Join(Tail(strs), sep)

\* the lines of a text: its pieces between line separators
RECURSIVE SplitLines(_)
SplitLines(text) ==
  IF \A i \in 1..Len(text) : text[i] # "\n" THEN <<text>>
  ELSE LET p == CHOOSE i \in 1..Len(text) :
                  text[i] = "\n" /\ \A j \in 1..(i - 1) : text[j] # "\n"
       IN <<SubSeq(text, 1, p - 1)>> \o SplitLines(SubSeq(text, p + 1, Len(text)))

(***************************************************************************)
(* JavaScript values held in the arrays that generateCSV joins.            *)
(***************************************************************************)
Undefined == [t |-> "undefined"]
Str(s) == [t |-> "string", s |-> s]
Num(n) == [t |-> "number", n |-> n]
Time(sec, nsec) == [t |-> "time", sec |-> sec, nsec |-> nsec]

\* Array.prototype.join: undefined elements become the empty string
ElementToString(v) ==
  IF v.t = "undefined" THEN <<>>
  ELSE IF v.t = "number" THEN NumberToString(v.n)
  ELSE v.s

ArrayJoin(arr, sep) == Join([i \in 1..Len(arr) |-> ElementToString(arr[i])], sep)

\* util/time formatTimeRaw: seconds, a point, nanoseconds padded to 9 digits
formatTimeRaw(stamp) == NatToStr(stamp.sec) \o <<".">> \o PadStart(NatToStr(stamp.nsec), 9, "0")

(***************************************************************************)
(* The table encoder.                                                      *)
(***************************************************************************)
getCSVRow(label, data) ==
  LET receiveTimeFloat == formatTimeRaw(data.receiveTime)
      stampTime == IF data.headerStamp.t # "undefined" THEN formatTimeRaw(data.headerStamp) ELSE <<>>
  IN <<Num(data.x), Str(receiveTimeFloat), Str(stampTime), label, data.value>>

getCVSColName(xAxisVal) ==
  CASE xAxisVal = "timestamp" -> Str(<<"e", "l", "a", "p", "s", "e", "d", " ", "t", "i", "m", "e">>)
    [] xAxisVal = "index" -> Str(<<"i", "n", "d", "e", "x">>)
    [] xAxisVal = "custom" -> Str(<<"x", " ", "v", "a", "l", "u", "e">>)
    [] xAxisVal = "currentCustom" -> Str(<<"x", " ", "v", "a", "l", "u", "e">>)
    [] OTHER -> Undefined

headLine(xAxisVal) ==
  <<getCVSColName(xAxisVal), Str(<<"r", "e", "c", "e", "i", "v", "e", " ", "t", "i", "m", "e">>), Str(<<"h", "e", "a", "d", "e", "r", ".", "s", "t", "a", "m", "p">>), Str(<<"t", "o", "p", "i", "c">>), Str(<<"v", "a", "l", "u", "e">>)>>

\* the rows pushed for one dataset, in the order of its data
datasetRows(dataset) == [i \in 1..Len(dataset.data) |-> getCSVRow(dataset.label, dataset.data[i])]

RECURSIVE dataRows(_)
dataRows(dss) == IF dss = <<>> THEN <<>> ELSE datasetRows(Head(dss)) \o dataRows(Tail(dss))

combinedLines(dss, xAxisVal) == <<headLine(xAxisVal)>> \o dataRows(dss)

\* generateCSV ending every line with the line separator
generateCSV_LineTerminated(dss, xAxisVal) ==
  LET lines == combinedLines(dss, xAxisVal)
  IN Join([i \in 1..Len(lines) |-> ArrayJoin(lines[i], <<",">>) \o <<"\n">>], <<>>)

generateCSV(dss, xAxisVal) ==
  LET lines == combinedLines(dss, xAxisVal)
  IN Join([i \in 1..Len(lines) |-> ArrayJoin(lines[i], <<",">>)], <<"\n">>)

(***************************************************************************)
(* The vector renderer.  The document is the sequence of its elements in   *)
(* the order generateSVG concatenates them; a coordinate of a path is the  *)
(* number that the template literal prints.                                *)
(***************************************************************************)
svgWidth == 500
svgHeight == 500
margin == 40
tickSize == 5
maxPoints == 1000

PosInfinity == Inf(1)
NegInfinity == Inf(-1)

\* a < b
FLess(a, b) ==
  IF a.k = "nan" \/ b.k = "nan" THEN FALSE
  ELSE IF a.k = "inf" THEN (a.s = -1 /\ ~(b.k = "inf" /\ b.s = -1))
  ELSE IF b.k = "inf" THEN b.s = 1
  ELSE FLeq(a, b) /\ ~FLeq(b, a)

\* Math.min(a, ...xs) and Math.max(a, ...xs)
RECURSIVE MathMin(_, _)
MathMin(a, xs) ==
  IF xs = <<>> THEN a
  ELSE IF a.k = "nan" \/ Head(xs).k = "nan" THEN NaN
  ELSE MathMin(IF FLess(Head(xs), a) THEN Head(xs) ELSE a, Tail(xs))

RECURSIVE MathMax(_, _)
MathMax(a, xs) ==
  IF xs = <<>> THEN a
  ELSE IF a.k = "nan" \/ Head(xs).k = "nan" THEN NaN
  ELSE MathMax(IF FLess(a, Head(xs)) THEN Head(xs) ELSE a, Tail(xs))

\* Number.prototype.toFixed(digits), for magnitudes below 10^21
toFixed(a, digits) ==
  IF a.k = "nan" THEN <<"N", "a", "N">>
  ELSE IF a.k = "inf" THEN (IF a.s = 1 THEN <<"I", "n", "f", "i", "n", "i", "t", "y">> ELSE <<"-">> \o <<"I", "n", "f", "i", "n", "i", "t", "y">>)
  ELSE LET scaled == NatStrip(NatMulLimb(a.m, 10 ^ digits, 0))
           n == IF a.e >= 0 THEN NatShl(scaled, a.e)
                ELSE NatAddC(NatShr(scaled, -a.e), <<>>, NatBit(scaled, -a.e - 1))
           ds == PadStart(NatToStr(NatToInt(n)), digits + 1, "0")
           txt == IF digits = 0 THEN ds
                  ELSE SubSeq(ds, 1, Len(ds) - digits) \o <<".">>
                       \o SubSeq(ds, Len(ds) - digits + 1, Len(ds))
       IN IF a.s = -1 /\ a.m # <<>> THEN <<"-">> \o txt ELSE txt

\* i / 10 for the tick indices
TickFraction == [i \in 0..10 |-> FDiv(FromInt(i), FromInt(10))]

\* The data range over every datum of every dataset
RECURSIVE dataRange(_, _)
dataRange(dss, r) ==
  IF dss = <<>> THEN r
  ELSE LET xData == [i \in 1..Len(Head(dss).data) |-> FromInt(Head(dss).data[i].x)]
           yData == [i \in 1..Len(Head(dss).data) |-> FromInt(Head(dss).data[i].y)]
       IN dataRange(Tail(dss), [xMin |-> MathMin(r.xMin, xData),
                                xMax |-> MathMax(r.xMax, xData),
                                yMin |-> MathMin(r.yMin, yData),
                                yMax |-> MathMax(r.yMax, yData)])

\* the data range of the first dataset only
range_FirstDataset(dss) ==
  dataRange(IF dss = <<>> THEN <<>> ELSE <<Head(dss)>>,
            [xMin |-> PosInfinity, xMax |-> NegInfinity,
             yMin |-> PosInfinity, yMax |-> NegInfinity])

range(dss) ==
  dataRange(dss, [xMin |-> PosInfinity, xMax |-> NegInfinity,
                  yMin |-> PosInfinity, yMax |-> NegInfinity])

xScale(r) == FDiv(FromInt(svgWidth - margin * 2), FSub(r.xMax, r.xMin))
yScale(r) == FDiv(FromInt(svgHeight - margin * 2), FSub(r.yMax, r.yMin))

svgOpen ==
  << [el |-> "?xml"],
     [el |-> "svg", width |-> svgWidth, height |-> svgHeight],
     [el |-> "defs"] >>

xAxis ==
  << [el |-> "line", x1 |-> margin, y1 |-> svgHeight - margin,
      x2 |-> svgWidth - margin, y2 |-> svgHeight - margin],
     [el |-> "text", x |-> svgWidth \div 2, y |-> svgHeight - 5, text |-> <<"x">>] >>

\* (svgWidth - margin * 2) / 10 and (svgHeight - margin * 2) / 10 are whole
xTickSize == (svgWidth - margin * 2) \div 10
yTickSize == (svgHeight - margin * 2) \div 10

xTick(r, i) ==
  LET xPos == margin + i * xTickSize
  IN << [el |-> "line", x1 |-> xPos, y1 |-> svgHeight - margin,
         x2 |-> xPos, y2 |-> svgHeight - margin + tickSize],
        [el |-> "text", x |-> xPos, y |-> svgHeight - margin + tickSize + 10,
         text |-> toFixed(FAdd(r.xMin, FMul(FSub(r.xMax, r.xMin), TickFraction[i])), 1)] >>

RECURSIVE xTicks(_, _)
xTicks(r, i) == IF i > 10 THEN <<>> ELSE xTick(r, i) \o xTicks(r, i + 1)

yAxis ==
  << [el |-> "line", x1 |-> margin, y1 |-> margin,
      x2 |-> margin, y2 |-> svgHeight - margin],
     [el |-> "text", x |-> 5, y |-> svgHeight \div 2, text |-> <<"y">>] >>

yTick(r, i) ==
  LET yPos == svgHeight - margin - i * yTickSize
  IN << [el |-> "line", x1 |-> margin - tickSize, y1 |-> yPos,
         x2 |-> margin, y2 |-> yPos],
        [el |-> "text", x |-> margin - tickSize - 5, y |-> yPos,
         text |-> toFixed(FAdd(r.yMin, FMul(FSub(r.yMax, r.yMin), TickFraction[i])), 2)] >>

RECURSIVE yTicks(_, _)
yTicks(r, i) == IF i > 10 THEN <<>> ELSE yTick(r, i) \o yTicks(r, i + 1)

\* the factor rounded down instead of up
resampleFactor_Floor(dataPoints) == dataPoints \div maxPoints

\* Math.ceil(dataPoints / maxPoints)
resampleFactor(dataPoints) == (dataPoints + maxPoints - 1) \div maxPoints

\* dataset.data.filter((_, index) => index % resampleFactor === 0);
\* index % 0 is NaN, which is not 0
resampledData(data) ==
  LET f == resampleFactor(Len(data))
      indexed == [i \in 1..Len(data) |-> [index |-> i - 1, datum |-> data[i]]]
      kept == SelectSeq(indexed, LAMBDA p : f # 0 /\ p.index % f = 0)
  IN [j \in 1..Len(kept) |-> kept[j].datum]

\* the canvas coordinates of one datum
mapPoint(data, r, xs, ys) ==
  << FAdd(FromInt(margin), FMul(FSub(FromInt(data.x), r.xMin), xs)),
     FSub(FromInt(svgHeight - margin), FMul(FSub(FromInt(data.y), r.yMin), ys)) >>

pathData(dataset, r, xs, ys) ==
  LET resampled == resampledData(dataset.data)
  IN [j \in 1..Len(resampled) |-> mapPoint(resampled[j], r, xs, ys)]

\* no path for a dataset without data
paths_SkipEmpty(dss, r) ==
  LET xs == xScale(r)
      ys == yScale(r)
      drawn == SelectSeq(dss, LAMBDA ds : ds.data # <<>>)
  IN [i \in 1..Len(drawn) |-> [el |-> "path", d |-> pathData(drawn[i], r, xs, ys)]]

paths(dss, r) ==
  LET xs == xScale(r)
      ys == yScale(r)
  IN [i \in 1..Len(dss) |-> [el |-> "path", d |-> pathData(dss[i], r, xs, ys)]]

svgClose == << [el |-> "/svg"] >>

generateSVG(dss) ==
  LET r == range(dss)
  IN svgOpen \o xAxis \o xTicks(r, 0) \o yAxis \o yTicks(r, 0) \o paths(dss, r) \o svgClose

(***************************************************************************)
(* The export engine as a state machine: the panel holds a snapshot of the *)
(* datasets and the x-axis kind; each step is one call of an export        *)
(* function.  sink is the list of the calls of downloadFiles, log the list   *)
(* of the calls made, thrown the exception the last call ended with        *)
(* ("none" when it returned; no statement of csv.ts throws).               *)
(***************************************************************************)
VARIABLES datasets, xAxisVal, csvData, svgData, thrown, sink, log, resampled

vars == <<datasets, xAxisVal, csvData, svgData, thrown, sink, log, resampled>>

Labels == {Undefined, Str(<<"a">>)}

\* table inputs: a numeric value without header stamp, a text value holding
\* a line break with one
TableDatums ==
  { [x |-> 0, y |-> 0, value |-> Num(7), receiveTime |-> Time(1, 5), headerStamp |-> Undefined],
    [x |-> 0, y |-> 0, value |-> Str(<<"b", "\n", "c">>), receiveTime |-> Time(1, 5),
     headerStamp |-> Time(2, 0)] }

\* plot inputs: three corners of the box [0, 39] x [0, 2]
PlotDatums ==
  { [x |-> c[1], y |-> c[2], value |-> Num(7), receiveTime |-> Time(1, 5), headerStamp |-> Undefined] :
      c \in {<<0, 0>>, <<0, 2>>, <<39, 2>>} }

AxisKinds == {"timestamp", "index", "custom", "currentCustom"}
AxisInputs == AxisKinds \cup {"other"}

RECURSIVE TotalPoints(_)
TotalPoints(dss) == IF dss = <<>> THEN 0 ELSE Len(Head(dss).data) + TotalPoints(Tail(dss))

\* the lists of at most MaxDatasets datasets holding at most MaxPoints points
DatasetLists(labels, datums) ==
  LET DataSeqs == UNION {[1..n -> datums] : n \in 0..MaxPoints}
      DataSets == [label : labels, data : DataSeqs]
      RECURSIVE Lists(_, _)
      Lists(k, budget) ==
        IF k = 0 THEN {<<>>}
        ELSE {<<>>} \cup
             UNION {{<<ds>> \o rest : rest \in Lists(k - 1, budget - Len(ds.data))} :
                      ds \in {d \in DataSets : Len(d.data) <= budget}}
  IN Lists(MaxDatasets, MaxPoints)

\* the header depends on the axis kind alone (line 27): every axis input is
\* tried on the empty list and on a list of one datum
HeaderLists == {<<>>, <<[label |-> Str(<<"a">>), data |-> <<CHOOSE d \in TableDatums : d.value = Num(7)>>]>>}

Init ==
  /\ \/ datasets \in HeaderLists /\ xAxisVal \in AxisInputs
     \/ datasets \in DatasetLists(Labels, TableDatums) /\ xAxisVal = "timestamp"
     \/ datasets \in DatasetLists({Str(<<"a">>)}, PlotDatums) /\ xAxisVal = "timestamp"
  /\ csvData = <<>>
  /\ svgData = <<>>
  /\ thrown = "none"
  /\ sink = <<>>
  /\ log = <<>>
  /\ resampled = <<>>

\* new Blob([text], { type })
Blob(text, type) == [parts |-> <<text>>, type |-> type]

\* a direct call of the exported generateCSV
GenerateCSV ==
  /\ Len(log) < MaxCalls
  /\ csvData' = generateCSV(datasets, xAxisVal)
  /\ thrown' = "none"
  /\ log' = Append(log, "generateCSV")
  /\ UNCHANGED <<datasets, xAxisVal, svgData, sink, resampled>>

\* downloadCSV handing the file to the sink twice
DownloadCSV_SentTwice ==
  /\ Len(log) < MaxCalls
  /\ csvData' = generateCSV(datasets, xAxisVal)
  /\ LET files == << [blob |-> Blob(csvData', "text/csv;charset=utf-8;"),
                      fileName |-> "plot_data.csv"] >>
     IN sink' = Append(Append(sink, files), files)
  /\ thrown' = "none"
  /\ log' = Append(log, "downloadCSV")
  /\ UNCHANGED <<datasets, xAxisVal, svgData, resampled>>

DownloadCSV ==
  /\ Len(log) < MaxCalls
  /\ csvData' = generateCSV(datasets, xAxisVal)
  /\ sink' = Append(sink, << [blob |-> Blob(csvData', "text/csv;charset=utf-8;"),
                              fileName |-> "plot_data.csv"] >>)
  /\ thrown' = "none"
  /\ log' = Append(log, "downloadCSV")
  /\ UNCHANGED <<datasets, xAxisVal, svgData, resampled>>

DownloadSVG ==
  /\ Len(log) < MaxCalls
  /\ svgData' = generateSVG(datasets)
  /\ sink' = Append(sink, << [blob |-> Blob(svgData', "image/svg+xml;charset=utf-8;"),
                              fileName |-> "plot_data.svg"] >>)
  /\ thrown' = "none"
  /\ log' = Append(log, "downloadSVG")
  /\ UNCHANGED <<datasets, xAxisVal, csvData, resampled>>

Next == GenerateCSV \/ DownloadCSV \/ DownloadSVG

Spec == Init /\ [][Next]_vars

(***************************************************************************)
(* The downsampling step of generateSVG on datasets of up to MaxN points:  *)
(* point i of the dataset has x = i.                                       *)
(***************************************************************************)
LongData(n) ==
  [i \in 1..n |-> [x |-> i - 1, y |-> 0, value |-> Num(7),
                   receiveTime |-> Time(1, 5), headerStamp |-> Undefined]]

InitResample ==
  /\ \E n \in 0..MaxN : datasets = << [label |-> Str(<<"a">>), data |-> LongData(n)] >>
  /\ xAxisVal = "timestamp"
  /\ csvData = <<>>
  /\ svgData = <<>>
  /\ thrown = "none"
  /\ sink = <<>>
  /\ log = <<>>
  /\ resampled = <<>>

Resample ==
  /\ log = <<>>
  /\ resampled' = [i \in 1..Len(datasets) |-> resampledData(datasets[i].data)]
  /\ log' = <<"resample">>
  /\ UNCHANGED <<datasets, xAxisVal, csvData, svgData, thrown, sink>>

NextResample == Resample

SpecResample == InitResample /\ [][NextResample]_vars

(***************************************************************************)
(* Vocabulary of the properties.                                           *)
(***************************************************************************)
Called(op) == \E i \in 1..Len(log) : log[i] = op
CsvCalled == Called("generateCSV") \/ Called("downloadCSV")
SvgCalled == Called("downloadSVG")

\* every datum with the label of its dataset, datasets in input order and
\* the points of a dataset in input order
RECURSIVE AllPoints(_)
AllPoints(dss) ==
  IF dss = <<>> THEN <<>>
  ELSE [j \in 1..Len(Head(dss).data) |-> [label |-> Head(dss).label, datum |-> Head(dss).data[j]]]
       \o AllPoints(Tail(dss))

\* the text of the row of one datum
RowText(p) ==
  ArrayJoin(<<Num(p.datum.x), Str(formatTimeRaw(p.datum.receiveTime)),
              Str(IF p.datum.headerStamp.t = "undefined" THEN <<>>
                  ELSE formatTimeRaw(p.datum.headerStamp)),
              p.label, p.datum.value>>, <<",">>)

\* the first field of a line: the text before its first delimiter
FirstField(line) ==
  IF \A i \in 1..Len(line) : line[i] # "," THEN line
  ELSE SubSeq(line, 1, (CHOOSE i \in 1..Len(line) :
                          line[i] = "," /\ \A j \in 1..(i - 1) : line[j] # ",") - 1)

FixedColumns == <<",", "r", "e", "c", "e", "i", "v", "e", " ", "t", "i", "m", "e", ",", "h", "e", "a", "d", "e", "r", ".", "s", "t", "a", "m", "p", ",", "t", "o", "p", "i", "c", ",", "v", "a", "l", "u", "e">>


\* the x and the y values of all points
XValues == UNION {{datasets[i].data[j].x : j \in 1..Len(datasets[i].data)} : i \in 1..Len(datasets)}
YValues == UNION {{datasets[i].data[j].y : j \in 1..Len(datasets[i].data)} : i \in 1..Len(datasets)}
MinOf(S) == CHOOSE v \in S : \A w \in S : v <= w
MaxOf(S) == CHOOSE v \in S : \A w \in S : w <= v

HasPoints == XValues # {}
ZeroWidthOrHeight == HasPoints /\ (MinOf(XValues) = MaxOf(XValues) \/ MinOf(YValues) = MaxOf(YValues))
NonDegenerate == HasPoints /\ MinOf(XValues) < MaxOf(XValues) /\ MinOf(YValues) < MaxOf(YValues)

\* the path elements of the document, in document order
SvgPaths == SelectSeq(svgData, LAMBDA el : el.el = "path")

\* the element names of a document with n paths
AxisTags == <<"line", "text">>
RECURSIVE Repeat(_, _)
Repeat(s, n) == IF n = 0 THEN <<>> ELSE s \o Repeat(s, n - 1)
DocumentTags(n) ==
  <<"?xml", "svg", "defs">> \o AxisTags \o Repeat(AxisTags, 11)
  \o AxisTags \o Repeat(AxisTags, 11) \o Repeat(<<"path">>, n) \o <<"/svg">>
TagsOf(doc) == [i \in 1..Len(doc) |-> doc[i].el]

CeilDiv(a, b) == IF a % b = 0 THEN a \div b ELSE (a \div b) + 1

\* the download calls made, in order
Downloads == SelectSeq(log, LAMBDA op : op \in {"downloadCSV", "downloadSVG"})

\* margin - 2^-20, canvas - margin + 2^-20
Below(n) == Fin(1, NatOfInt(n * (2 ^ 20) - 1), -20)
Above(n) == Fin(1, NatOfInt(n * (2 ^ 20) + 1), -20)

(***************************************************************************)
(* C1: the table of generateCSV has one header row followed by one data    *)
(* row per datum: the number of data rows is the sum of the point counts,  *)
(* and the rows are in dataset order, then point order.                    *)
(***************************************************************************)
C1_OneRowPerDatum ==
  CsvCalled =>
    LET lines == SplitLines(csvData)
        points == AllPoints(datasets)
    IN /\ Len(lines) = 1 + TotalPoints(datasets)
       /\ \A i \in 1..Len(points) : i + 1 <= Len(lines) /\ lines[i + 1] = RowText(points[i])

(***************************************************************************)
(* C2: the first column label of the header is "elapsed time" for          *)
(* timestamp, "index" for index, "x value" for custom and currentCustom;   *)
(* for any other axis kind the encoder raises ConfigurationError instead   *)
(* of returning a table.                                                   *)
(***************************************************************************)
C2_HeaderLabelOrConfigurationError ==
  CsvCalled =>
    /\ xAxisVal = "timestamp" => FirstField(SplitLines(csvData)[1]) = <<"e", "l", "a", "p", "s", "e", "d", " ", "t", "i", "m", "e">>
    /\ xAxisVal = "index" => FirstField(SplitLines(csvData)[1]) = <<"i", "n", "d", "e", "x">>
    /\ xAxisVal \in {"custom", "currentCustom"} => FirstField(SplitLines(csvData)[1]) = <<"x", " ", "v", "a", "l", "u", "e">>
    /\ xAxisVal \notin AxisKinds => thrown = "ConfigurationError" /\ csvData = <<>>

(***************************************************************************)
(* C3: for an empty dataset list the table encoder returns exactly one     *)
(* line, the header, and the vector renderer returns without throwing a    *)
(* complete document (header, both axes, ticks, closing tag) with no path  *)
(* element.                                                                *)
(***************************************************************************)
C3_EmptyDatasetList ==
  datasets = <<>> =>
    /\ CsvCalled =>
         /\ Len(SplitLines(csvData)) = 1
         /\ csvData = ElementToString(getCVSColName(xAxisVal)) \o FixedColumns
    /\ SvgCalled =>
         /\ thrown = "none"
         /\ TagsOf(svgData) = DocumentTags(0)
         /\ SvgPaths = <<>>

C3_Witness == datasets = <<>> /\ CsvCalled /\ SvgCalled /\ Len(svgData) = 52

(***************************************************************************)
(* C4 as stated: for every dataset with N points the renderer keeps        *)
(* exactly the points whose index is a multiple of ceil(N / maxPoints),    *)
(* the rendered count is ceil(N / ceil(N / maxPoints)), and point 0 is     *)
(* among the kept points; N = 2500 gives factor 3 and 834 points.          *)
(* (For N = 0 the factor is 0 and ceil(0 / 0) is NaN, which is no count.)  *)
(***************************************************************************)
KeptAsClaimed(data, kept) ==
  LET N == Len(data)
      f == CeilDiv(N, maxPoints)
  IN /\ f # 0
     /\ Len(kept) = CeilDiv(N, f)
     /\ \A j \in 1..Len(kept) : kept[j] = data[(j - 1) * f + 1]
     /\ Len(kept) >= 1 /\ kept[1] = data[1]
     /\ N = 2500 => f = 3 /\ Len(kept) = 834

C5_CornersMapToCanvasCorners ==
  SvgCalled =>
    \A i \in 1..Len(datasets) : \A j \in 1..Len(datasets[i].data) :
      LET p == datasets[i].data[j]
          c == SvgPaths[i].d[j]
      IN /\ p.x = MinOf(XValues) => c[1] = FromInt(margin)
         /\ p.x = MaxOf(XValues) => c[1] = FromInt(svgWidth - margin)
         /\ p.y = MinOf(YValues) => c[2] = FromInt(svgHeight - margin)
         /\ p.y = MaxOf(YValues) => c[2] = FromInt(margin)

(***************************************************************************)
(* C6: when the bounding box has zero width or zero height the renderer    *)
(* emits no NaN or infinite coordinate: it rejects with                    *)
(* DegenerateRangeError or every coordinate it emits is finite.            *)
(***************************************************************************)
C6_NoInvalidCoordinate ==
  (SvgCalled /\ ZeroWidthOrHeight) =>
    \/ thrown = "DegenerateRangeError"
    \/ \A i \in 1..Len(SvgPaths) : \A j \in 1..Len(SvgPaths[i].d) :
         IsFinite(SvgPaths[i].d[j][1]) /\ IsFinite(SvgPaths[i].d[j][2])

C8_FailedExportNeverReachesSink ==
  \A k \in 1..Len(sink) :
    /\ sink[k][1].fileName = "plot_data.csv" => xAxisVal \in AxisKinds
    /\ sink[k][1].fileName = "plot_data.svg" => ~ZeroWidthOrHeight

InsideRectangle(c, left, right, top, bottom) ==
  /\ IsFinite(c[1]) /\ FLeq(left, c[1]) /\ FLeq(c[1], right)
  /\ IsFinite(c[2]) /\ FLeq(top, c[2]) /\ FLeq(c[2], bottom)

====
